---- MODULE Spec2Model ----
(***************************************************************************)
(* Model of backend/main.py: the counter store (read, increment with      *)
(* retry), the Postgres LISTEN/NOTIFY bridge, the broadcast over CLIENTS  *)
(* and the two stream adapters (/ws and /sse).                            *)
(*                                                                         *)
(* The program runs on one asyncio event loop: a coroutine runs without    *)
(* interruption until it awaits something that is not ready.  Each action  *)
(* below is one such uninterrupted run.  A database round trip and a       *)
(* WebSocket send are suspension points; acquiring the uncontended         *)
(* CLIENTS_LOCK and putting into the unbounded asyncio.Queue are not.      *)
(***************************************************************************)
EXTENDS Integers, Sequences, FiniteSets, TLC

\* ------------------------------------------------------------------ bounds
\* The counter is incremented at most this many times above its start.
MaxIncr == 2
\* At most this many notifications are sent on the channel.
MaxNotify == 2
\* The largest counter value Init starts from.
MaxInitial == 1

\* ------------------------------------------------------- program constants
\* _increment_and_get_count(retries: int = 3)
DefaultRetries == 3
\* `return None` of _get_current_count, as a value no count can take
NoneVal == -1

\* The values of `retries` a call is made with (the PATCH handler uses the default).
RetryChoices == {1, 2, DefaultRetries}

WsSinks == {"w1", "w2"}
SseSinks == {"q1"}
Sinks == WsSinks \cup SseSinks
Callers == {"a", "b"}

\* list(CLIENTS) iterates the set in one fixed (hash) order.
SinkOrder == <<"w1", "q1", "w2">>

VARIABLES
    store,      \* counters.count in the database
    hasRow,     \* the counters table has its row
    initial,    \* the value the counter had at Init (history)
    succ,       \* number of calls of _increment_and_get_count that returned (history)
    dbUp,       \* the database accepts connections and queries
    listener,   \* LISTENER_CONN: "init", "listening", "none" (connect failed), "lost"
    channel,    \* notifications sent by the trigger, not yet handed to the handler
    nsent,      \* number of notifications sent so far (history, bounds the run)
    tasks,      \* the _handle_notify tasks, in the order create_task made them
    CLIENTS,    \* the registry
    pc,         \* per sink: where its adapter is
    alive,      \* per sink: the client's connection is up
    stalled,    \* the WebSocket clients that have stopped reading
    current,    \* per sink: `current`, the result of _get_current_count
    stream,     \* per sink: what was sent to it / put into its queue, in order
    emitted,    \* per SSE sink: how many queue items the generator has yielded
    regStore,   \* per sink: the counter's value when the sink was registered (history)
    calls,      \* per caller: the state of its PATCH /api/v1/count request
    lastGet,    \* the last answer of GET /api/v1/count
    lock,       \* CLIENTS_LOCK and the event loop, at the grain of lock operations
    lp          \* per coroutine of that grain: where it is in its program

vars == <<store, hasRow, initial, succ, dbUp, listener, channel, nsent, tasks, CLIENTS,
          pc, alive, stalled, current, stream, emitted, regStore, calls, lastGet,
          lock, lp>>

lockVars == <<lock, lp>>
storeVars == <<store, hasRow, initial, succ>>
bridgeVars == <<listener, channel, nsent, tasks>>
sinkVars == <<CLIENTS, pc, alive, stalled, current, stream, emitted, regStore>>

\* ---------------------------------------------------------------- payloads
\* A notification payload, by shape: "empty" is the empty string, "text"
\* is not JSON, "list" is JSON but no object, "nocount" an object without
\* count, "badcount" an object whose count does not convert to an integer
\* (null, "abc").  "count" carries an integer count,
\* "strcount" a count written as a string of digits (int() converts it).
MalformedKinds == {"empty", "text", "list", "nocount", "badcount"}
WellFormedKinds == {"count", "strcount"}
Payload(kind, n) == [kind |-> kind, n |-> n]

\* json.loads(payload): raises on text that is not JSON; otherwise the value.
JsonLoads(p) ==
    [raises |-> p.kind = "text",
     isdict |-> p.kind \in {"nocount", "badcount", "count", "strcount"},
     hascount |-> p.kind \in {"badcount", "count", "strcount"},
     intable |-> p.kind \in {"count", "strcount"},
     n |-> p.n]

\* (variant for checking: _handle_notify without its try/except)
ParseNotifyUncaught(p) ==
    IF p.kind = "empty"
    THEN [bcast |-> FALSE, count |-> NoneVal, logged |-> FALSE, escaped |-> FALSE]
    ELSE LET d == JsonLoads(p) IN
         IF d.raises \/ (d.isdict /\ d.hascount /\ ~d.intable)
         THEN [bcast |-> FALSE, count |-> NoneVal, logged |-> FALSE, escaped |-> TRUE]
         ELSE IF ~(d.isdict /\ d.hascount)
         THEN [bcast |-> FALSE, count |-> NoneVal, logged |-> FALSE, escaped |-> FALSE]
         ELSE [bcast |-> TRUE, count |-> d.n, logged |-> FALSE, escaped |-> FALSE]

\* The part of _handle_notify before the broadcast: whether a count is
\* broadcast, which one, whether an exception was caught and logged, and
\* whether one escaped the function (none does: `except Exception` covers
\* the whole body).
NoBroadcast(logged) == [bcast |-> FALSE, count |-> NoneVal, logged |-> logged, escaped |-> FALSE]

ParseNotify(p) ==
    IF p.kind = "empty" THEN NoBroadcast(FALSE)
    ELSE LET d == JsonLoads(p) IN
         IF d.raises THEN NoBroadcast(TRUE)
         ELSE IF ~(d.isdict /\ d.hascount) THEN NoBroadcast(FALSE)
         ELSE IF ~d.intable THEN NoBroadcast(TRUE)
         ELSE [bcast |-> TRUE, count |-> d.n, logged |-> FALSE, escaped |-> FALSE]

\* A payload the trigger's contract allows: a JSON object whose count is
\* an integer or converts to one.
WellFormed(p) == p.kind \in WellFormedKinds

Range(f) == {f[j] : j \in DOMAIN f}

\* ------------------------------------------------------------ CLIENTS_LOCK
\* The coroutines that use CLIENTS_LOCK, as the sequence of their lock
\* operations, registry operations and suspension points: the /ws handler
\* of one client, the /sse handler and generator of one client, and two
\* broadcast passes.
LockProcs == {"w1", "q1", "t1", "t2"}

\* websocket_endpoint: accept; add under the lock; the read; the initial
\* send; receive_text until it raises; discard under the lock.
ProgWs == <<"await", "acq", "add", "rel", "await", "await", "await",
            "acq", "discard", "rel">>

\* sse_endpoint and event_generator: the request; add under the lock; the
\* read; queue.get; then the except block and the finally block, each with
\* its discard under the lock.
ProgSse == <<"await", "acq", "add", "rel", "await", "await",
             "acq", "discard", "rel", "acq", "discard", "rel">>

\* (variant for checking: the pass keeps the lock while it sends)
ProgBcHoldingLock == <<"await", "acq", "copy", "send", "rel">>

\* _broadcast_count: the task is created; the copy under the lock; then
\* for each client the awaited send or put and, when it raised, the
\* discard under the lock.
ProgBc == <<"await", "acq", "copy", "rel", "send", "acq", "discard", "rel">>

Prog(p) == IF p \in WsSinks THEN ProgWs ELSE IF p \in SseSinks THEN ProgSse ELSE ProgBc

\* A coroutine: the index of the operation it is at (suspended in it, or
\* about to do it), and for a pass its list `clients` and loop position.
StartOf == [idx |-> 1, snap |-> <<>>, i |-> 1]

\* ------------------------------------------------------------------- Init
\* A call of PATCH /api/v1/count: the loop's `retries` and `attempt`, the
\* value returned and the HTTP status; and as history the number of
\* attempts made (tries), of sleeps, what the call added to the counter and
\* the counter's value just before the attempt that committed (base).
IdleCall == [pc |-> "idle", retries |-> 0, attempt |-> 0, tries |-> 0,
             sleeps |-> 0, added |-> 0, base |-> NoneVal, result |-> NoneVal,
             status |-> 0]

Init ==
    /\ store \in 0..MaxInitial
    /\ hasRow \in BOOLEAN
    /\ hasRow = FALSE => store = 0
    /\ initial = store
    /\ succ = 0
    /\ dbUp = TRUE
    /\ listener = "init"
    /\ channel = <<>>
    /\ nsent = 0
    /\ tasks = <<>>
    /\ CLIENTS = {}
    /\ pc = [s \in Sinks |-> "idle"]
    /\ alive = [s \in Sinks |-> FALSE]
    /\ stalled = {}
    /\ current = [s \in Sinks |-> NoneVal]
    /\ stream = [s \in Sinks |-> <<>>]
    /\ emitted = [s \in Sinks |-> 0]
    /\ regStore = [s \in Sinks |-> NoneVal]
    /\ calls = [c \in Callers |-> IdleCall]
    /\ lastGet = [status |-> 0, count |-> NoneVal, cause |-> "none"]
    /\ lock = [holder |-> "free", waiters |-> <<>>, cpu |-> "none", bare |-> FALSE]
    /\ lp = [p \in LockProcs |-> StartOf]

started == listener # "init"

\* ------------------------------------------------------------- lifespan
\* Startup: the engine and session factory are made; asyncpg.connect and
\* add_listener either succeed or raise, and then the server runs without
\* notifications.
Startup ==
    /\ listener = "init"
    /\ \/ dbUp /\ listener' = "listening"
       \/ listener' = "none"
    /\ UNCHANGED <<lockVars, storeVars, dbUp, channel, nsent, tasks, sinkVars, calls, lastGet>>

\* The listener connection drops.  Nothing in the program observes it.
ListenerLost ==
    /\ listener = "listening"
    /\ listener' = "lost"
    /\ channel' = <<>>
    /\ UNCHANGED <<lockVars, storeVars, dbUp, nsent, tasks, sinkVars, calls, lastGet>>

\* ---------------------------------------------------------- counter store
\* _get_current_count: the value read, or None when there is no row and
\* when the query fails (`except Exception: return None`).  The query may
\* fail at any time and does fail while the database is down.  `cause` is
\* what happened inside (history): the function returns only `val`.
ReadOutcomes ==
    {[val |-> NoneVal, cause |-> "failed"]}
    \cup (IF ~dbUp THEN {}
          ELSE IF hasRow THEN {[val |-> store, cause |-> "ok"]}
          ELSE {[val |-> NoneVal, cause |-> "norow"]})

ReadResults == {o.val : o \in ReadOutcomes}

\* The trigger's NOTIFY on a committed write: delivered to the listener
\* connection only while it is listening.
Emit(n) ==
    IF listener = "listening"
    THEN /\ channel' = Append(channel, Payload("count", n))
         /\ nsent' = nsent + 1
    ELSE UNCHANGED <<channel, nsent>>

\* What a committed UPDATE ... SET count = count + 1 leaves in the row.
Updated(v) == v + 1

\* (variant for checking: the failed attempt's update stays in the row)
RolledBackNot(v) == v + 1

\* What an attempt that raised leaves in the row: session.begin() rolls back.
RolledBack(v) == v

\* (variant for checking: the count from before the update is returned)
ReturningOld(v) == v - 1

\* `RETURNING count`, read as int(row[0]): the count the update wrote.
Returning(v) == v

\* (variant for checking: the test is off by one, `attempt < retries`)
RetriesLeftOffByOne(attempt, retries) == attempt < retries

\* The loop's test `attempt < retries - 1`: whether a failed attempt is retried.
RetriesLeft(attempt, retries) == attempt < retries - 1

\* PATCH /api/v1/count calls _increment_and_get_count; the first loop
\* iteration opens its session.
StartIncrement(c, r) ==
    /\ started
    /\ calls[c].pc = "idle"
    /\ calls' = [calls EXCEPT ![c] = [IdleCall EXCEPT !.pc = "try", !.retries = r]]
    /\ UNCHANGED <<lockVars, storeVars, dbUp, bridgeVars, sinkVars, lastGet>>

\* (variant for checking: the handler itself pushes the new count to the
\* registered clients instead of leaving it to the notification)
AttemptOkPushing(c) ==
    /\ calls[c].pc = "try"
    /\ dbUp
    /\ hasRow
    /\ store < initial + MaxIncr
    /\ listener = "listening" => nsent < MaxNotify
    /\ store' = store + 1
    /\ succ' = succ + 1
    /\ Emit(store')
    /\ stream' = [s \in Sinks |-> IF s \in CLIENTS
                                  THEN Append(stream[s], [v |-> store', src |-> Len(tasks) + 1])
                                  ELSE stream[s]]
    /\ calls' = [calls EXCEPT ![c].pc = "done",
                              ![c].tries = @ + 1,
                              ![c].added = @ + 1,
                              ![c].base = store,
                              ![c].result = store',
                              ![c].status = 200]
    /\ UNCHANGED <<lockVars, hasRow, initial, dbUp, listener, tasks, CLIENTS, pc, alive, stalled, current,
                   emitted, regStore, lastGet>>

\* One attempt commits: the row is updated, RETURNING gives the new count,
\* the function returns it and the handler answers 200.
AttemptOk(c) ==
    /\ calls[c].pc = "try"
    /\ dbUp
    /\ hasRow
    /\ store < initial + MaxIncr
    /\ listener = "listening" => nsent < MaxNotify
    /\ store' = Updated(store)
    /\ succ' = succ + 1
    /\ Emit(store')
    /\ calls' = [calls EXCEPT ![c].pc = "done",
                              ![c].tries = @ + 1,
                              ![c].added = @ + (store' - store),
                              ![c].base = store,
                              ![c].result = Returning(store'),
                              ![c].status = 200]
    /\ UNCHANGED <<lockVars, hasRow, initial, dbUp, listener, tasks, sinkVars, lastGet>>

\* One attempt raises (conflict, query error, no row, failed commit): the
\* transaction is rolled back; the call sleeps and retries, or re-raises on
\* the last attempt and the handler answers 500.
AttemptFail(c) ==
    /\ calls[c].pc = "try"
    /\ store' = RolledBack(store)
    /\ calls' = [calls EXCEPT ![c].tries = @ + 1,
                              ![c].added = @ + (store' - store),
                              ![c].pc = IF RetriesLeft(calls[c].attempt, calls[c].retries)
                                        THEN "sleep" ELSE "done",
                              ![c].status = IF RetriesLeft(calls[c].attempt, calls[c].retries)
                                            THEN 0 ELSE 500]
    /\ UNCHANGED <<lockVars, hasRow, initial, succ, dbUp, bridgeVars, sinkVars, lastGet>>

\* asyncio.sleep(0.05) ends and the loop goes to its next attempt.
Retry(c) ==
    /\ calls[c].pc = "sleep"
    /\ calls' = [calls EXCEPT ![c].pc = "try",
                              ![c].attempt = @ + 1,
                              ![c].sleeps = @ + 1]
    /\ UNCHANGED <<lockVars, storeVars, dbUp, bridgeVars, sinkVars, lastGet>>

\* The response is sent; the caller may issue another request.
Respond(c) ==
    /\ calls[c].pc = "done"
    /\ calls' = [calls EXCEPT ![c] = IdleCall]
    /\ UNCHANGED <<lockVars, storeVars, dbUp, bridgeVars, sinkVars, lastGet>>

\* GET /api/v1/count: 200 with the count, or 404 when _get_current_count
\* gives None.  (The 500 of the handler is for ENGINE or ASYNC_SESSION
\* being None, which they are not between startup and shutdown.)
GetStatus(r) == IF r = NoneVal THEN 404 ELSE 200

GetCount ==
    /\ started
    /\ \E o \in ReadOutcomes :
         lastGet' = [status |-> GetStatus(o.val), count |-> o.val, cause |-> o.cause]
    /\ UNCHANGED <<lockVars, storeVars, dbUp, bridgeVars, sinkVars, calls>>

\* ------------------------------------------------------ notification bridge
\* Somebody else sends NOTIFY on the channel with an arbitrary payload.
EnvNotify(p) ==
    /\ listener = "listening"
    /\ nsent < MaxNotify
    /\ channel' = Append(channel, p)
    /\ nsent' = nsent + 1
    /\ UNCHANGED <<lockVars, storeVars, dbUp, listener, tasks, sinkVars, calls, lastGet>>

\* A task: its payload until it is parsed, then `count`, the snapshot
\* `clients`, the loop position i; and as history whether the payload was
\* well formed (wf) and with which count (n), the sinks delivery was
\* attempted to (att) and those it failed for (failed), the tasks that had
\* ended when it started (after), for a well-formed payload the registry
\* at that moment (reg), and the sinks it sent or put to when they were no
\* longer in CLIENTS (late).
Parsed == Payload("parsed", 0)

NewTask(p) == [p |-> p, pc |-> "new", wf |-> FALSE, n |-> NoneVal, count |-> NoneVal,
               snap |-> <<>>, i |-> 1, att |-> {}, failed |-> {},
               logged |-> FALSE, escaped |-> FALSE, after |-> {}, reg |-> {},
               late |-> {}]

\* _pg_notify_handler: asyncpg calls it for each notification in arrival
\* order; it only creates the task that will handle the payload.
PgNotifyHandler ==
    /\ listener = "listening"
    /\ channel # <<>>
    /\ tasks' = Append(tasks, NewTask(Head(channel)))
    /\ channel' = Tail(channel)
    /\ UNCHANGED <<lockVars, storeVars, dbUp, listener, nsent, sinkVars, calls, lastGet>>

\* ---------------------------------------------------------------- broadcast
\* `clients = list(CLIENTS)` under CLIENTS_LOCK.
RECURSIVE SnapshotFrom(_, _)
SnapshotFrom(set, j) ==
    IF j > Len(SinkOrder) THEN <<>>
    ELSE (IF SinkOrder[j] \in set THEN <<SinkOrder[j]>> ELSE <<>>)
         \o SnapshotFrom(set, j + 1)

\* (variant for checking: the pass goes over every sink there is, whether
\* registered or not)
SnapshotOfAll(set) == SinkOrder

Snapshot(set) == SnapshotFrom(set, 1)

\* An item of a sink's stream: the count and who produced it (0: the
\* adapter's initial snapshot; k > 0: the broadcast of task k).
Item(v, src) == [v |-> v, src |-> src]

\* (variant for checking: the failing sink is not discarded)
AfterFailureKept(clients, c) == clients

\* The registry after a delivery to sink c raised.
AfterFailure(clients, c) == clients \ {c}

\* The index of the loop after the delivery to snap[i] raised.
NextAfterFailure(snap, i) == i + 1

\* The loop takes `client` from its list and does not look at CLIENTS
\* again: c is recorded as late when it is not registered any more.
Late(clients, c) == IF c \in clients THEN {} ELSE {c}

\* The loop `for client in clients` of _broadcast_count from position b.i
\* up to its next suspension: a queue put completes at once and the loop
\* goes on; a WebSocket send is awaited, so the run stops after it.  A send
\* to a closed WebSocket raises and the sink is discarded.
RECURSIVE RunPass(_, _, _)
RunPass(b, k, up) ==
    IF b.t.i > Len(b.t.snap) THEN b
    ELSE LET c == b.t.snap[b.t.i]
             it == Item(b.t.count, k)
         IN IF c \in SseSinks
            THEN RunPass([b EXCEPT !.stream[c] = Append(@, it),
                                   !.t.att = @ \cup {c},
                                   !.t.late = @ \cup Late(b.clients, c),
                                   !.t.i = @ + 1], k, up)
            ELSE IF up[c]
            THEN [b EXCEPT !.stream[c] = Append(@, it),
                           !.t.att = @ \cup {c},
                           !.t.late = @ \cup Late(b.clients, c),
                           !.t.i = @ + 1]
            ELSE [b EXCEPT !.clients = AfterFailure(@, c),
                           !.t.att = @ \cup {c},
                           !.t.late = @ \cup Late(b.clients, c),
                           !.t.failed = @ \cup {c},
                           !.t.i = NextAfterFailure(b.t.snap, b.t.i)]

Finished(t) == [t EXCEPT !.pc = IF t.i > Len(t.snap) THEN "done" ELSE "run"]

ApplyPass(k, b) ==
    /\ tasks' = [tasks EXCEPT ![k] = Finished(b.t)]
    /\ stream' = b.stream
    /\ CLIENTS' = b.clients

\* The task of notification k starts (tasks start in creation order):
\* _handle_notify parses the payload; a payload without a usable count ends
\* the task; otherwise _broadcast_count takes its snapshot and runs to its
\* first suspension.
StartTask(k) ==
    /\ k \in 1..Len(tasks)
    /\ tasks[k].pc = "new"
    /\ \A j \in 1..(k - 1) : tasks[j].pc # "new"
    /\ LET r == ParseNotify(tasks[k].p)
           t0 == [tasks[k] EXCEPT !.p = Parsed,
                                  !.wf = WellFormed(tasks[k].p),
                                  !.n = IF WellFormed(tasks[k].p) THEN tasks[k].p.n ELSE NoneVal,
                                  !.count = r.count,
                                  !.logged = r.logged,
                                  !.escaped = r.escaped,
                                  !.after = {j \in 1..Len(tasks) : tasks[j].pc = "done"},
                                  !.reg = IF WellFormed(tasks[k].p) THEN CLIENTS ELSE {},
                                  !.snap = IF r.bcast THEN Snapshot(CLIENTS) ELSE <<>>]
       IN ApplyPass(k, RunPass([t |-> t0, stream |-> stream, clients |-> CLIENTS], k, alive))
    /\ UNCHANGED <<lockVars, storeVars, dbUp, listener, channel, nsent, pc, alive, stalled, current,
                   emitted, regStore, calls, lastGet>>

\* The sink whose delivery a suspended pass is waiting for.
Awaited(t) == t.snap[t.i - 1]

\* `await client.send_text(message)` returns (or raises) once the message
\* is written out or the connection is seen closed; to a client that has
\* stopped reading and is still connected it does neither.
SendEnds(c) == c \notin stalled \/ ~alive[c]

\* A suspended broadcast resumes and runs to its next suspension or its end.
ResumeTask(k) ==
    /\ k \in 1..Len(tasks)
    /\ tasks[k].pc = "run"
    /\ SendEnds(Awaited(tasks[k]))
    /\ ApplyPass(k, RunPass([t |-> tasks[k], stream |-> stream, clients |-> CLIENTS], k, alive))
    /\ UNCHANGED <<lockVars, storeVars, dbUp, listener, channel, nsent, pc, alive, stalled, current,
                   emitted, regStore, calls, lastGet>>

\* ----------------------------------------------------------------- clients
\* The client's connection goes away (closed tab, network failure).
ClientDisconnect(s) ==
    /\ pc[s] \in {"registered", "read", "open"}
    /\ alive[s]
    /\ alive' = [alive EXCEPT ![s] = FALSE]
    /\ UNCHANGED <<lockVars, storeVars, dbUp, bridgeVars, CLIENTS, pc, stalled, current, stream,
                   emitted, regStore, calls, lastGet>>

\* A connected WebSocket client stops reading: its connection stays up and
\* what is sent to it is no longer taken.
ClientStall(s) ==
    /\ s \in WsSinks
    /\ pc[s] = "open"
    /\ alive[s]
    /\ s \notin stalled
    /\ stalled' = stalled \cup {s}
    /\ UNCHANGED <<lockVars, storeVars, dbUp, bridgeVars, CLIENTS, pc, alive, current, stream,
                   emitted, regStore, calls, lastGet>>

\* Registration, common to both adapters: `CLIENTS.add(...)` under the lock.
Register(s) ==
    /\ started
    /\ pc[s] = "idle"
    /\ pc' = [pc EXCEPT ![s] = "registered"]
    /\ alive' = [alive EXCEPT ![s] = TRUE]
    /\ CLIENTS' = CLIENTS \cup {s}
    /\ regStore' = [regStore EXCEPT ![s] = store]
    /\ UNCHANGED <<lockVars, storeVars, dbUp, bridgeVars, stalled, current, stream, emitted,
                   calls, lastGet>>

\* `current = await _get_current_count()`: the query runs; the coroutine
\* resumes later, after the session is closed.
ReadCurrent(s) ==
    /\ pc[s] = "registered"
    /\ \E r \in ReadResults : current' = [current EXCEPT ![s] = r]
    /\ pc' = [pc EXCEPT ![s] = "read"]
    /\ UNCHANGED <<lockVars, storeVars, dbUp, bridgeVars, CLIENTS, alive, stalled, stream, emitted,
                   regStore, calls, lastGet>>

\* ------------------------------------------------------------- /ws adapter
\* websocket.accept() and registration.
WsAccept(s) == s \in WsSinks /\ Register(s)

WsRead(s) == s \in WsSinks /\ ReadCurrent(s)

\* What the /ws adapter sends as its initial message: nothing when the read
\* gave None.
WsInitial(cur) == IF cur = NoneVal THEN <<>> ELSE <<Item(cur, 0)>>

\* The initial count is sent (a failure is logged and swallowed) and the
\* handler enters its receive loop.
WsSendInitial(s) ==
    /\ s \in WsSinks
    /\ pc[s] = "read"
    /\ stream' = [stream EXCEPT ![s] = IF alive[s] THEN @ \o WsInitial(current[s]) ELSE @]
    /\ pc' = [pc EXCEPT ![s] = "open"]
    /\ current' = [current EXCEPT ![s] = NoneVal]
    /\ UNCHANGED <<lockVars, storeVars, dbUp, bridgeVars, CLIENTS, alive, stalled, emitted,
                   regStore, calls, lastGet>>

\* receive_text() returns a message of the client; its content is ignored.
WsReceive(s) ==
    /\ s \in WsSinks
    /\ pc[s] = "open"
    /\ alive[s]
    /\ UNCHANGED vars

\* receive_text() raises (WebSocketDisconnect or another exception): the
\* sink is discarded and the handler ends.
WsDisconnected(s) ==
    /\ s \in WsSinks
    /\ pc[s] = "open"
    /\ ~alive[s]
    /\ CLIENTS' = CLIENTS \ {s}
    /\ pc' = [pc EXCEPT ![s] = "closed"]
    /\ UNCHANGED <<lockVars, storeVars, dbUp, bridgeVars, alive, stalled, current, stream, emitted,
                   regStore, calls, lastGet>>

\* ------------------------------------------------------------ /sse adapter
\* `queue = asyncio.Queue()` and registration.
SseRegister(s) == s \in SseSinks /\ Register(s)

SseRead(s) == s \in SseSinks /\ ReadCurrent(s)

\* `current if current is not None else 0`
SseInitial(cur) == IF cur = NoneVal THEN 0 ELSE cur

\* queue.put_nowait(current) and the StreamingResponse is returned: the
\* generator will be iterated.
SsePutInitial(s) ==
    /\ s \in SseSinks
    /\ pc[s] = "read"
    /\ stream' = [stream EXCEPT ![s] = Append(@, Item(SseInitial(current[s]), 0))]
    /\ pc' = [pc EXCEPT ![s] = "open"]
    /\ current' = [current EXCEPT ![s] = NoneVal]
    /\ UNCHANGED <<lockVars, storeVars, dbUp, bridgeVars, CLIENTS, alive, stalled, emitted,
                   regStore, calls, lastGet>>

\* event_generator: one item is taken from the queue and yielded.
SseEmit(s) ==
    /\ s \in SseSinks
    /\ pc[s] = "open"
    /\ alive[s]
    /\ emitted[s] < Len(stream[s])
    /\ emitted' = [emitted EXCEPT ![s] = @ + 1]
    /\ UNCHANGED <<lockVars, storeVars, dbUp, bridgeVars, CLIENTS, pc, alive, stalled, current, stream,
                   regStore, calls, lastGet>>

\* The client is gone while the generator runs: the generator is cancelled
\* or closed, and its except/finally blocks discard the queue.
SseClose(s) ==
    /\ s \in SseSinks
    /\ pc[s] = "open"
    /\ ~alive[s]
    /\ CLIENTS' = CLIENTS \ {s}
    /\ pc' = [pc EXCEPT ![s] = "closed"]
    /\ UNCHANGED <<lockVars, storeVars, dbUp, bridgeVars, alive, stalled, current, stream, emitted,
                   regStore, calls, lastGet>>

\* The request ends before the generator is ever iterated (the handler is
\* cancelled while it awaits the read, after the client went away): no
\* except or finally block covers lines 193-199, so nothing discards the
\* queue.
SseAbort(s) ==
    /\ s \in SseSinks
    /\ pc[s] \in {"registered", "read"}
    /\ ~alive[s]
    /\ pc' = [pc EXCEPT ![s] = "aborted"]
    /\ UNCHANGED <<lockVars, storeVars, dbUp, bridgeVars, CLIENTS, alive, stalled, current, stream,
                   emitted, regStore, calls, lastGet>>

\* ---------------------------------------------- CLIENTS_LOCK, step by step
\* The event loop runs one coroutine at a time (lock.cpu) and changes to
\* another only where the running one suspends.
OpAt(p) == Prog(p)[lp[p].idx]

SendIdx(p) == CHOOSE j \in DOMAIN Prog(p) : Prog(p)[j] = "send"

\* The operation after the one at idx: after the last one a pass goes back
\* to its loop head, a handler has ended (and a new request may come).
Succ(p, idx) ==
    IF idx < Len(Prog(p)) THEN idx + 1
    ELSE IF "send" \in Range(Prog(p)) THEN SendIdx(p) ELSE 1

\* Control of p reaches operation j with loop state st: at a suspension
\* point the coroutine gives up the event loop; the loop `for client in
\* clients` ends the pass when the list is used up.
Arrive(p, j, st) ==
    IF Prog(p)[j] = "send" /\ st.i > Len(st.snap)
    THEN [l |-> StartOf, cpu |-> "none"]
    ELSE [l |-> [st EXCEPT !.idx = j],
          cpu |-> IF Prog(p)[j] \in {"await", "send"} THEN "none" ELSE p]

Move(p, a) ==
    /\ lp' = [lp EXCEPT ![p] = a.l]
    /\ lock' = [lock EXCEPT !.cpu = a.cpu]

LockFrame == UNCHANGED <<storeVars, dbUp, bridgeVars, pc, alive, stalled, current, stream,
                         emitted, regStore, calls, lastGet>>

\* asyncio.Lock.acquire: taken at once when the lock is free and nobody
\* waits; otherwise the coroutine joins the waiters and suspends.
LAcquire(p) ==
    /\ lock.cpu = p
    /\ OpAt(p) = "acq"
    /\ IF lock.holder = "free" /\ lock.waiters = <<>>
       THEN /\ lock' = [lock EXCEPT !.holder = p]
            /\ lp' = [lp EXCEPT ![p].idx = Succ(p, @)]
       ELSE /\ lock' = [lock EXCEPT !.waiters = Append(@, p), !.cpu = "none"]
            /\ lp' = lp
    /\ UNCHANGED CLIENTS
    /\ LockFrame

\* The sink a coroutine adds or discards: a handler its own, a pass the
\* client whose delivery raised.
Target(p) == IF p \in Sinks THEN p ELSE lp[p].snap[lp[p].i]

\* CLIENTS.add, list(CLIENTS), CLIENTS.discard; lock.bare records an
\* operation done by a coroutine that does not hold the lock.
LRegistryOp(p) ==
    /\ lock.cpu = p
    /\ OpAt(p) \in {"add", "copy", "discard"}
    /\ CLIENTS' = CASE OpAt(p) = "add" -> CLIENTS \cup {Target(p)}
                     [] OpAt(p) = "discard" -> CLIENTS \ {Target(p)}
                     [] OTHER -> CLIENTS
    /\ LET st == [lp[p] EXCEPT
                   !.snap = IF OpAt(p) = "copy" THEN Snapshot(CLIENTS) ELSE @,
                   !.i = IF OpAt(p) = "discard" /\ p \notin Sinks THEN @ + 1 ELSE @]
           a == Arrive(p, Succ(p, lp[p].idx), st)
       IN /\ lp' = [lp EXCEPT ![p] = a.l]
          /\ lock' = [lock EXCEPT !.bare = @ \/ lock.holder # p, !.cpu = a.cpu]
    /\ LockFrame

\* The end of an `async with CLIENTS_LOCK` block: release; the coroutine
\* runs on to its next operation.
LRelease(p) ==
    /\ lock.cpu = p
    /\ OpAt(p) = "rel"
    /\ LET a == Arrive(p, Succ(p, lp[p].idx), lp[p])
       IN /\ lp' = [lp EXCEPT ![p] = a.l]
          /\ lock' = [lock EXCEPT !.holder = "free", !.cpu = a.cpu]
    /\ UNCHANGED CLIENTS
    /\ LockFrame

\* The event loop resumes a suspended coroutine: what it awaited is there
\* (a request, a query result, a sent message, an exception of the send
\* or of receive_text), or the lock it waited for is free and it is the
\* first waiter.
LResume(p) ==
    /\ started
    /\ lock.cpu = "none"
    /\ \/ /\ OpAt(p) = "await"
          /\ Move(p, Arrive(p, Succ(p, lp[p].idx), lp[p]))
       \/ /\ OpAt(p) = "send"
          /\ \/ Move(p, Arrive(p, lp[p].idx, [lp[p] EXCEPT !.i = @ + 1]))
             \/ Move(p, Arrive(p, lp[p].idx + 1, lp[p]))
       \/ /\ OpAt(p) = "acq"
          /\ lock.holder = "free"
          /\ lock.waiters # <<>> /\ Head(lock.waiters) = p
          /\ lp' = [lp EXCEPT ![p].idx = Succ(p, @)]
          /\ lock' = [lock EXCEPT !.holder = p, !.waiters = Tail(@), !.cpu = p]
    /\ UNCHANGED CLIENTS
    /\ LockFrame

LockSteps ==
    \/ \E p \in LockProcs : LResume(p)
    \/ \E p \in LockProcs : LAcquire(p)
    \/ \E p \in LockProcs : LRegistryOp(p)
    \/ \E p \in LockProcs : LRelease(p)

\* ------------------------------------------------------------ environment
DbDown ==
    /\ dbUp
    /\ dbUp' = FALSE
    /\ UNCHANGED <<lockVars, storeVars, bridgeVars, sinkVars, calls, lastGet>>

DbBack ==
    /\ ~dbUp
    /\ dbUp' = TRUE
    /\ UNCHANGED <<lockVars, storeVars, bridgeVars, sinkVars, calls, lastGet>>

\* ------------------------------------------------------------------- Next
\* The payloads other senders put on the channel.
InjectedPayloads ==
    {Payload(k, 0) : k \in MalformedKinds} \cup {Payload(k, 1) : k \in WellFormedKinds}

\* The requests of the callers C, made with retries from R.
WriterSteps(C, R) ==
    \/ \E c \in C, r \in R : StartIncrement(c, r)
    \/ \E c \in C : AttemptOk(c)
    \/ \E c \in C : AttemptFail(c)
    \/ \E c \in C : Retry(c)
    \/ \E c \in C : Respond(c)

\* Requests none of whose attempts fails.
CleanWriterSteps(C) ==
    \/ \E c \in C : StartIncrement(c, DefaultRetries)
    \/ \E c \in C : AttemptOk(c)
    \/ \E c \in C : Respond(c)

TaskSteps ==
    \/ PgNotifyHandler
    \/ \E k \in 1..MaxNotify : StartTask(k)
    \/ \E k \in 1..MaxNotify : ResumeTask(k)

WsSteps(S) ==
    \/ \E s \in S : WsAccept(s)
    \/ \E s \in S : WsRead(s)
    \/ \E s \in S : WsSendInitial(s)
    \/ \E s \in S : WsReceive(s)
    \/ \E s \in S : WsDisconnected(s)

SseSteps(S) ==
    \/ \E s \in S : SseRegister(s)
    \/ \E s \in S : SseRead(s)
    \/ \E s \in S : SsePutInitial(s)
    \/ \E s \in S : SseEmit(s)
    \/ \E s \in S : SseClose(s)
    \/ \E s \in S : SseAbort(s)

\* Every step of the program and of its environment.
Next ==
    \/ Startup
    \/ ListenerLost
    \/ DbDown
    \/ DbBack
    \/ WriterSteps(Callers, RetryChoices)
    \/ GetCount
    \/ \E p \in InjectedPayloads : EnvNotify(p)
    \/ TaskSteps
    \/ WsSteps(WsSinks)
    \/ SseSteps(SseSinks)
    \/ \E s \in Sinks : ClientDisconnect(s)
    \/ \E s \in WsSinks : ClientStall(s)

Spec == Init /\ [][Next]_vars

(***************************************************************************)
(* The specifications below are Spec restricted to the part of the         *)
(* program a group of properties is about: each takes a subset of Next's   *)
(* steps, so each of its behaviours is a behaviour of Spec.  The steps     *)
(* left out change only variables the kept steps never read.               *)
(***************************************************************************)

\* The counter store: two concurrent callers, reads, failing attempts.
StoreNext ==
    \/ Startup
    \/ WriterSteps(Callers, RetryChoices)
    \/ GetCount

\* The runs that start from a counter of 0.
InitZero == Init /\ store = 0 /\ hasRow

SpecStore == Init /\ [][StoreNext]_vars

\* The read path: GET requests while a writer increments and the database
\* goes down and comes back, with and without a counter row.
ReadNext ==
    \/ Startup
    \/ GetCount
    \/ WriterSteps({"a"}, {1, DefaultRetries})
    \/ DbDown
    \/ DbBack

SpecRead == Init /\ [][ReadNext]_vars

\* The fan-out: one writer, the trigger's notifications, one WebSocket and
\* one SSE client.
FanNext ==
    \/ Startup
    \/ CleanWriterSteps({"a"})
    \/ TaskSteps
    \/ WsSteps({"w1"})
    \/ SseSteps({"q1"})
    \/ \E s \in {"w1", "q1"} : ClientDisconnect(s)

SpecFan == InitZero /\ [][FanNext]_vars

\* Broadcast passes over two WebSocket clients, any of which may be closed.
CastNext ==
    \/ Startup
    \/ \E p \in {Payload("text", 0), Payload("count", 1)} : EnvNotify(p)
    \/ TaskSteps
    \/ WsSteps(WsSinks)
    \/ \E s \in WsSinks : ClientDisconnect(s)

SpecCast == InitZero /\ [][CastNext]_vars

\* The handling of arbitrary payloads, with one client of each kind.
NotifyNext ==
    \/ Startup
    \/ \E p \in InjectedPayloads : EnvNotify(p)
    \/ TaskSteps
    \/ WsSteps({"w1"})
    \/ SseSteps({"q1"})
    \/ \E s \in {"w1", "q1"} : ClientDisconnect(s)

SpecNotify == InitZero /\ [][NotifyNext]_vars

\* The write path next to the fan-out: a writer whose attempts may fail,
\* the notifications of its commits, and one WebSocket client that may go
\* away (a pass over a single client ends with its one send).
WriteNext ==
    \/ Startup
    \/ WriterSteps({"a"}, {1, 2})
    \/ PgNotifyHandler
    \/ \E k \in 1..MaxNotify : StartTask(k)
    \/ WsSteps({"w1"})
    \/ ClientDisconnect("w1")

SpecWrite == InitZero /\ [][WriteNext]_vars

\* The life of the subscription, with a writer and a reader (no client is
\* connected: the broadcasts find an empty registry).
BridgeProgram ==
    \/ Startup
    \/ GetCount
    \/ CleanWriterSteps({"a"})
    \/ PgNotifyHandler
    \/ \E k \in 1..MaxNotify : StartTask(k)

BridgeNext ==
    \/ BridgeProgram
    \/ ListenerLost
    \/ DbDown
    \/ DbBack

\* The event loop runs every coroutine and callback that is ready, so each
\* part of the program is weakly fair; the steps of the environment (the
\* database going down or coming back, a connection dropping) are not.
BridgeFairness ==
    /\ WF_vars(Startup)
    /\ WF_vars(GetCount)
    /\ WF_vars(CleanWriterSteps({"a"}))
    /\ WF_vars(PgNotifyHandler)
    /\ WF_vars(\E k \in 1..MaxNotify : StartTask(k))

SpecBridge == InitZero /\ [][BridgeNext]_vars /\ BridgeFairness

\* Passes next to clients that come and go: two WebSocket clients, one of
\* which may go away, and an SSE client that registers.
SnapNext ==
    \/ Startup
    \/ EnvNotify(Payload("count", 1))
    \/ TaskSteps
    \/ WsSteps(WsSinks)
    \/ ClientDisconnect("w1")
    \/ SseRegister("q1")
    \/ SseRead("q1")
    \/ SsePutInitial("q1")

SpecSnap == InitZero /\ [][SnapNext]_vars

\* The users of CLIENTS_LOCK at the grain of single lock operations: the
\* same handlers and passes as above, each `async with` block taken apart
\* into acquire, registry operation and release.
LockNext ==
    \/ Startup
    \/ LockSteps

SpecLock == InitZero /\ [][LockNext]_vars

\* A pass over two WebSocket clients that stay connected, the first of
\* which may stop reading, next to a reader.
StallProgram ==
    \/ Startup
    \/ GetCount
    \/ TaskSteps
    \/ \E s \in WsSinks : WsAccept(s)
    \/ \E s \in WsSinks : WsRead(s)
    \/ \E s \in WsSinks : WsSendInitial(s)

StallNext ==
    \/ StallProgram
    \/ EnvNotify(Payload("count", 1))
    \/ ClientStall("w1")

\* The event loop runs whatever is ready: every suspended pass whose send
\* has ended is resumed, every created task is started, every handler goes
\* on.  Notifications and clients' behaviour are not fair.
StallFairness ==
    /\ WF_vars(Startup)
    /\ WF_vars(GetCount)
    /\ WF_vars(PgNotifyHandler)
    /\ WF_vars(\E k \in 1..MaxNotify : StartTask(k))
    /\ \A k \in 1..MaxNotify : WF_vars(ResumeTask(k))
    /\ \A s \in WsSinks : WF_vars(WsRead(s)) /\ WF_vars(WsSendInitial(s))

SpecStall == InitZero /\ [][StallNext]_vars /\ StallFairness

(***************************************************************************)
(* Properties of the counter store, checked under SpecStore.               *)
(***************************************************************************)

\* C4 Increment correctness: the stored counter equals its initial value
\* plus the number of calls of _increment_and_get_count that returned;
\* a call that returned added exactly 1, and a call that has only failed
\* attempts behind it (sleeping, retrying or ended with an error) added
\* nothing, whatever reads and other calls ran in between.
C4_IncrementCorrect ==
    /\ store = initial + succ
    /\ \A c \in Callers :
         /\ (calls[c].pc = "done" /\ calls[c].status = 200) => calls[c].added = 1
         /\ ~(calls[c].pc = "done" /\ calls[c].status = 200) => calls[c].added = 0

\* Two calls have returned, one of them after a failed attempt, and a read
\* has been answered.
C4_Witness ==
    /\ succ = 2
    /\ store = initial + 2
    /\ lastGet.status = 200
    /\ \E c \in Callers : calls[c].pc = "done" /\ calls[c].status = 200 /\ calls[c].tries >= 2

\* C5 Retry bound on exhaustion: a call that ends with an error was made
\* with retries >= 1, made exactly `retries` attempts, slept exactly
\* retries - 1 times (never after the last failure), added nothing to the
\* counter, and the PATCH handler answers 500.
C5_RetryExhaustion ==
    \A c \in Callers :
      /\ (calls[c].pc = "done" /\ calls[c].status # 200) =>
            /\ calls[c].status = 500
            /\ calls[c].retries >= 1
            /\ calls[c].tries = calls[c].retries
            /\ calls[c].sleeps = calls[c].retries - 1
            /\ calls[c].added = 0
      /\ calls[c].pc = "sleep" => calls[c].tries < calls[c].retries

\* A call made with the default retries = 3 has failed three times.
C5_Witness ==
    \E c \in Callers :
      /\ calls[c].pc = "done"
      /\ calls[c].status = 500
      /\ calls[c].retries = DefaultRetries
      /\ calls[c].tries = 3

\* C6 Retry success: a call whose attempt k succeeds after k - 1 failures
\* (k <= retries) returns the count its own update wrote (one more than the
\* counter held just before that update), after exactly k attempts and
\* k - 1 sleeps, and answers 200.
C6_RetrySuccess ==
    \A c \in Callers :
      (calls[c].pc = "done" /\ calls[c].status = 200) =>
         /\ calls[c].result = calls[c].base + 1
         /\ calls[c].tries = calls[c].attempt + 1
         /\ calls[c].tries <= calls[c].retries
         /\ calls[c].sleeps = calls[c].tries - 1

\* A call succeeded on the last allowed attempt while the other caller
\* incremented the counter in between.
C6_Witness ==
    \E c \in Callers :
      /\ calls[c].pc = "done"
      /\ calls[c].status = 200
      /\ calls[c].retries = DefaultRetries
      /\ calls[c].tries = DefaultRetries
      /\ calls[c].result = initial + 2

\* C11 Read distinguishes absence from failure: GET /api/v1/count answers
\* 404 only when the query ran and found no counter row, and answers 500
\* whenever the query failed (store unavailable or query error); a
\* failed query is never answered with 404.  (Checked under SpecRead.)
C11_AbsenceNotFailure ==
    /\ lastGet.status = 404 => lastGet.cause = "norow"
    /\ lastGet.cause = "failed" => lastGet.status = 500

(***************************************************************************)
(* Properties of the broadcast.                                            *)
(***************************************************************************)
\* Sink s was sent, or had queued, the count v by the broadcast of task k.
Got(s, v, k) == \E j \in DOMAIN stream[s] : stream[s][j] = Item(v, k)

\* C3 Fault isolation (under SpecCast): in every broadcast pass a sink whose
\* delivery raised is out of CLIENTS from that moment on; the pass goes on
\* to every other sink of its snapshot (at its end delivery was attempted
\* to the whole snapshot and every sink that did not fail got the count);
\* and a broadcast that starts after the pass ended does not have the
\* failed sink in its snapshot.
C3_FaultIsolation ==
    \A k \in 1..Len(tasks) :
      LET t == tasks[k] IN
      /\ t.failed \cap CLIENTS = {}
      /\ t.failed \subseteq t.att
      /\ t.att = {t.snap[j] : j \in 1..(t.i - 1)}
      /\ t.pc = "done" =>
            /\ t.att = Range(t.snap)
            /\ \A s \in t.att \ t.failed : Got(s, t.count, k)
      /\ \A j \in t.after : tasks[j].failed \cap Range(t.snap) = {}

\* A pass failed for the first sink of its snapshot and still delivered to
\* the other one; a later pass started after it had ended, and delivered
\* to the sink that is left.
C3_Witness ==
    \E j, k \in 1..Len(tasks) :
      /\ tasks[j].pc = "done" /\ tasks[k].pc = "done"
      /\ j \in tasks[k].after
      /\ tasks[j].snap = <<"w1", "w2">>
      /\ tasks[j].failed = {"w1"}
      /\ Got("w2", tasks[j].count, j)
      /\ tasks[k].snap = <<"w2">>
      /\ Got("w2", tasks[k].count, k)

\* C7 Malformed payload resilience (under SpecNotify): no exception leaves
\* _handle_notify; a payload that is empty, not JSON, not an object,
\* without count or with a count that does not convert ends its task with
\* nothing delivered to any sink; a well-formed payload is broadcast with
\* its own count to the whole registry as it is when its task starts,
\* also when malformed payloads were handled before it.
C7_MalformedResilience ==
    \A k \in 1..Len(tasks) :
      LET t == tasks[k] IN
      t.pc # "new" =>
        /\ ~t.escaped
        /\ ~t.wf =>
             /\ t.pc = "done"
             /\ t.att = {}
             /\ \A s \in Sinks : \A j \in DOMAIN stream[s] : stream[s][j].src # k
        /\ t.wf =>
             /\ t.count = t.n
             /\ Range(t.snap) = t.reg
             /\ t.pc = "done" =>
                  /\ t.att = t.reg
                  /\ \A s \in t.att \ t.failed : Got(s, t.n, k)

\* A payload that made json.loads raise was handled and logged, and the
\* well-formed payload after it reached both registered sinks.
C7_Witness ==
    \E j, k \in 1..Len(tasks) :
      /\ tasks[j].pc = "done" /\ ~tasks[j].wf /\ tasks[j].logged
      /\ tasks[k].pc = "done" /\ tasks[k].wf
      /\ j \in tasks[k].after
      /\ tasks[k].reg = {"w1", "q1"}
      /\ Got("w1", 1, k) /\ Got("q1", 1, k)

\* The positions of the adapter's own initial message in the stream of s.
InitialItems(s) == {j \in DOMAIN stream[s] : stream[s][j].src = 0}

\* C12 Push-capable initial snapshot (under SpecCast): a WebSocket client
\* whose handler has reached its receive loop, and that is still connected,
\* has been sent exactly one initial message, carrying a count the store
\* held (or 0 when the read gave no value); it is never left without one.
C12_WsInitialSent ==
    \A s \in WsSinks :
      (pc[s] = "open" /\ alive[s]) =>
         /\ Cardinality(InitialItems(s)) = 1
         /\ \A j \in InitialItems(s) : stream[s][j].v \in 0..store

\* A step of the write path: some PATCH request moved.
WriterStepped == calls' # calls

\* C13 Write path decoupled from fan-out (under SpecWrite): a step of an
\* increment, committing or failing, leaves CLIENTS and every stream as
\* they were; every pushed item of a stream is the count of a notification
\* whose task has started, so with no notification handled no stream holds
\* more than the adapter's initial message; and the increment's result is
\* the count it wrote, whatever happened to the deliveries.
C13_PushedOnlyByNotify ==
    /\ \A s \in Sinks : \A j \in DOMAIN stream[s] :
          stream[s][j].src > 0 =>
             /\ stream[s][j].src \in 1..Len(tasks)
             /\ tasks[stream[s][j].src].pc # "new"
             /\ stream[s][j].v = tasks[stream[s][j].src].count
    /\ (\A k \in 1..Len(tasks) : tasks[k].pc = "new") =>
          \A s \in Sinks : Len(stream[s]) = Cardinality(InitialItems(s))
    /\ \A c \in Callers :
          (calls[c].pc = "done" /\ calls[c].status = 200) => calls[c].result = calls[c].base + 1

C13_WriteDecoupled ==
    /\ []C13_PushedOnlyByNotify
    /\ [][WriterStepped => (CLIENTS' = CLIENTS /\ stream' = stream)]_vars

\* Without a subscription two increments were committed while a client was
\* connected, and the client holds nothing but its initial message.
C13_Witness ==
    /\ listener = "none"
    /\ succ = 2
    /\ tasks = <<>>
    /\ pc["w1"] = "open" /\ alive["w1"] /\ "w1" \in CLIENTS
    /\ Len(stream["w1"]) = 1
    /\ \E c \in Callers : calls[c].pc = "done" /\ calls[c].status = 200 /\ calls[c].tries = 2

\* The broadcast passes that have taken their snapshot and not yet gone
\* through all of it.
InProgress == {k \in 1..Len(tasks) : tasks[k].pc = "run"}

\* C14 Serialized dispatch (under SpecCast): at most one broadcast pass is
\* in progress at any time, and the task of a notification starts only
\* when the task of every earlier notification has ended.
C14_OnePassAtATime ==
    /\ Cardinality(InProgress) <= 1
    /\ \A k \in 1..Len(tasks) :
          tasks[k].pc # "new" => (1..(k - 1)) \subseteq tasks[k].after

\* C15 No delivery after removal (under SpecCast): no broadcast pass does
\* a send_text or a queue put on a sink that is no longer in CLIENTS, also
\* not a pass that took its snapshot before the removal.
C15_NoLateDelivery ==
    \A k \in 1..Len(tasks) : tasks[k].late = {}

\* Pass k has sink s in its snapshot and has not yet attempted it.
Owes(k, s) ==
    /\ k \in 1..Len(tasks)
    /\ tasks[k].pc = "run"
    /\ s \in Range(tasks[k].snap) \ tasks[k].att

\* C16 Non-blocking per-sink delivery (under SpecStall): whenever a pass
\* still owes the event to the client w2 of its snapshot, it eventually
\* attempts w2, also when the send to w1, the other WebSocket client of the
\* same snapshot, never completes.
C16_SlowClientDoesNotBlock ==
    \A k \in 1..MaxNotify :
      Owes(k, "w2") ~> (k \in 1..Len(tasks) /\ "w2" \in tasks[k].att)

\* The items in the queue of SSE sink s that the generator has not taken.
Undelivered(s) == Len(stream[s]) - emitted[s]

\* C17 Bounded pull queue (under SpecNotify): the queue of an SSE sink
\* never holds more undelivered items than a fixed capacity.  Whatever the
\* capacity, that many notifications on top of the initial snapshot would
\* have to be refused; it is checked here for a capacity of MaxNotify.
C17_QueueBounded ==
    \A s \in SseSinks : Undelivered(s) <= MaxNotify

\* The positions in the stream of s of what pass k delivered.
FromPass(s, k) == {j \in DOMAIN stream[s] : stream[s][j].src = k}

\* C18 Snapshot isolation of a broadcast pass (under SpecSnap): the list a
\* pass goes over is the membership of CLIENTS when the pass copied it,
\* each sink once; the pass attempts only sinks of that list, all of them
\* by its end; a sink that was not in CLIENTS at that moment gets nothing
\* from the pass, and no sink gets more than one delivery from it.
C18_SnapshotIsolation ==
    \A k \in 1..Len(tasks) :
      LET t == tasks[k] IN
      (t.pc # "new" /\ t.wf) =>
        /\ Range(t.snap) = t.reg
        /\ Len(t.snap) = Cardinality(t.reg)
        /\ t.att = {t.snap[j] : j \in 1..(t.i - 1)}
        /\ t.pc = "done" => t.att = t.reg
        /\ \A s \in Sinks :
             /\ s \notin t.reg => FromPass(s, k) = {}
             /\ Cardinality(FromPass(s, k)) <= 1

\* A pass copied the registry {w1, w2} and was suspended; the SSE client
\* registered meanwhile and w1 was removed; the pass has ended, w2 got its
\* count and the SSE client, registered and served, got nothing from it.
C18_Witness ==
    \E k \in 1..Len(tasks) :
      /\ tasks[k].pc = "done"
      /\ tasks[k].reg = {"w1", "w2"}
      /\ CLIENTS = {"w2", "q1"}
      /\ pc["q1"] = "open"
      /\ tasks[k].late = {}
      /\ Got("w2", 1, k)
      /\ FromPass("q1", k) = {}

(***************************************************************************)
(* Properties of the fan-out, checked under SpecFan.                       *)
(***************************************************************************)

\* C1 Broadcast order preservation: in the stream of every sink that is
\* still registered, the counts pushed by broadcasts appear in the order
\* in which their notifications were handed to _pg_notify_handler (the
\* task numbers of the pushed items increase along the stream).
C1_OrderPreserved ==
    \A s \in CLIENTS :
      \A i, j \in DOMAIN stream[s] :
        (i < j /\ stream[s][i].src > 0 /\ stream[s][j].src > 0)
           => stream[s][i].src < stream[s][j].src

\* C2 Snapshot-before-push: the first item of every client's stream is the
\* adapter's initial snapshot; no broadcast count precedes it.
C2_SnapshotFirst ==
    \A s \in Sinks : stream[s] # <<>> => stream[s][1].src = 0

\* C8 First-value freshness: the first value a client receives is not
\* older than the counter was when its sink was registered.  (The 0 an
\* adapter sends as its own snapshot is left aside: it also stands for a
\* read that failed.)
C8_FirstValueFresh ==
    \A s \in Sinks :
      stream[s] # <<>> =>
         \/ stream[s][1] = Item(0, 0)
         \/ stream[s][1].v >= regStore[s]

\* C9 Disconnect unregisters: once the request of a disconnected client
\* has ended (its handler or generator has run its last step), its sink
\* is not in CLIENTS.
C9_DisconnectUnregisters ==
    \A s \in Sinks : pc[s] \in {"closed", "aborted"} => s \notin CLIENTS

\* Nothing is under way: no request is being served, every notification
\* sent has been handled and broadcast to the end, and every adapter has
\* sent its initial snapshot.
Quiescent ==
    /\ \A c \in Callers : calls[c].pc = "idle"
    /\ channel = <<>>
    /\ \A k \in 1..Len(tasks) : tasks[k].pc = "done"
    /\ \A s \in Sinks : pc[s] \notin {"registered", "read"}

\* C19 Eventual consistency of streams: with the subscription up, once
\* nothing is under way the last value received by every sink that is
\* still registered and connected is the stored counter value.  (The 0 an
\* adapter sends as its own snapshot is left aside: it also stands for a
\* read that failed.)
C19_StreamsConverge ==
    (Quiescent /\ listener = "listening") =>
       \A s \in CLIENTS :
         (pc[s] = "open" /\ alive[s] /\ stream[s] # <<>>) =>
            \/ stream[s][Len(stream[s])] = Item(0, 0)
            \/ stream[s][Len(stream[s])].v = store

\* C20 Registry lock discipline (under SpecLock): every add, discard and
\* copy of CLIENTS is done by the coroutine that holds CLIENTS_LOCK; the
\* lock is held only by the coroutine that is running, never by a
\* suspended one; so nobody ever waits for the lock, and whenever no
\* coroutine is running the lock is free and every coroutine can be
\* resumed (nothing is blocked on the registry).
C20_LockDiscipline ==
    /\ ~lock.bare
    /\ lock.holder # "free" => lock.cpu = lock.holder
    /\ lock.waiters = <<>>
    /\ (started /\ lock.cpu = "none") =>
          \A p \in LockProcs : OpAt(p) \in {"await", "send"}

\* A pass that copied {w1, q1} is discarding a client whose delivery
\* raised, holding the lock, while the other pass is suspended in a send
\* and both handlers are suspended after their registration.
C20_Witness ==
    /\ lock.holder = "t1" /\ OpAt("t1") = "discard"
    /\ Len(lp["t1"].snap) = 2
    /\ OpAt("t2") = "send"
    /\ lp["w1"].idx > 4 /\ lp["q1"].idx > 4

(***************************************************************************)
(* Property of the subscription, checked under SpecBridge.                 *)
(***************************************************************************)

\* C10 Subscription recovery: whenever the process has no subscription
\* (the listener connection was not established at startup, or was lost)
\* while the database is reachable, it eventually is subscribed again,
\* unless the database becomes unreachable first.
C10_Resubscribes ==
    (started /\ listener # "listening" /\ dbUp) ~> (listener = "listening" \/ ~dbUp)

====
